---------------------------- MODULE Spec2Model ----------------------------
(***************************************************************************)
(* Model of the Ergodic-Information-Harvesting simulation code.            *)
(*                                                                         *)
(* Part I  (specification Spec): the job-distribution layer of             *)
(*   SimulationMainQueue.py: the producer SimulationMainQueue, the         *)
(*   multiprocessing work queue (its semaphore, its buffer, its feeder     *)
(*   thread and its pipe) and the QueueWorker processes.                   *)
(* Part II (specification SpecOpt): one ErgodicOpt optimizer object of     *)
(*   ergodic.py, its cached tensors and its numeric operations, computed   *)
(*   in exact rational arithmetic on a short time grid.                    *)
(***************************************************************************)
EXTENDS Integers, Sequences, FiniteSets, TLC

VARIABLES
  \* ---- Part I: SimulationMainQueue.py
  dataFiles,        \* input: one descriptor per data file
  nThreadArg,       \* input: the nThread argument
  mainpc,           \* position of SimulationMainQueue
  nThread,          \* worker count after the cap of line 125-126
  nTotalJobs,       \* line 123
  max_queue_size,   \* line 131
  jobs,             \* number of worker processes started (len(jobs))
  trial, it,        \* loop indices of lines 146 and 160 (1-based)
  remaining_jobs,   \* line 134, 195
  params,           \* per trial: the job (it) whose values its shared
                    \* ergParam/eidParam objects hold now, 0 before any
  qbuffer,          \* work_queue: items put, not yet pickled by the feeder
  qpipe,            \* work_queue: pickled items in the pipe
  waiting,          \* number of workers blocked in work_queue.get
  running,          \* the work items held by the workers running a job
  exited,           \* number of workers that returned through Empty
  done,             \* jobs (trial, it) whose simulation ran to completion
  died,             \* the work items on which a worker raised and ended
  \* ---- Part II: ergodic.py
  opt,              \* the optimizer object (its attributes)
  ret,              \* the last operation, its arguments and its result
  reads,            \* provenance of the tensors the last operation read
  lastTraj          \* history: the arguments of the last update_traj call

queueVars == <<dataFiles, nThreadArg, mainpc, nThread, nTotalJobs,
               max_queue_size, jobs, trial, it, remaining_jobs, params,
               qbuffer, qpipe, waiting, running, exited, done, died>>
optVars == <<opt, ret, reads, lastTraj>>
vars == <<queueVars, optVars>>

(***************************************************************************)
(* Bounds of the model.                                                    *)
(***************************************************************************)
MaxThread == 2     \* largest nThread argument
MaxFiles == 1      \* largest number of data files
MaxJobs == 4       \* largest total number of parameter combinations

\* line 117-121: the attenuation job list is read, sorted and then cleared
nAttenuationSimTrials == 0


Min(a, b) == IF a < b THEN a ELSE b

RECURSIVE SumN(_, _)
SumN(f, k) == IF k = 0 THEN 0 ELSE f[k].n + SumN(f, k - 1)

(***************************************************************************)
(* A data file: n is the size of the product of its parameter lists        *)
(* (line 99-113); cfg tells what is wrong with it, if anything:            *)
(*   missingParam    one of the eight swept keys is absent (line 102-109)  *)
(*   missingObject   eidParam, ergParam or filename is absent (151-153)    *)
(*   mothUnresolved  rawTraj names the moth data set and the data file     *)
(*                   cannot be loaded (line 70-75, 42-47)                  *)
(***************************************************************************)
Cfgs == {"ok", "missingParam", "missingObject", "mothUnresolved"}
FileDesc == [n : 0..MaxJobs, cfg : Cfgs]

FileLists ==
  { f \in UNION { [1..k -> FileDesc] : k \in 1..MaxFiles } :
      /\ SumN(f, Len(f)) <= MaxJobs
      /\ Cardinality({ i \in 1..Len(f) : f[i].cfg # "ok" }) <= 1 }

Malformed(f) == \E i \in 1..Len(f) : f[i].cfg # "ok"

InitQueue ==
  /\ dataFiles \in FileLists
  /\ nThreadArg \in 1..MaxThread
  /\ mainpc = "load"
  /\ nThread = 0
  /\ nTotalJobs = 0
  /\ max_queue_size = 0
  /\ jobs = 0
  /\ trial = 0
  /\ it = 0
  /\ remaining_jobs = 0
  /\ params = [t \in 1..MaxFiles |-> 0]
  /\ qbuffer = <<>>
  /\ qpipe = <<>>
  /\ waiting = 0
  /\ running = {}
  /\ exited = 0
  /\ done = {}
  /\ died = {}



(***************************************************************************)
(* SimulationMainQueue, line 89-134: load every data file, count the jobs, *)
(* cap the pool size, create the pool and the bounded queue.               *)
(***************************************************************************)
nTrials == Len(dataFiles)
nSimJobsList == [t \in 1..nTrials |-> dataFiles[t].n]

\* line 123
TotalJobs(f) == SumN(f, Len(f)) + nAttenuationSimTrials

\* line 125-126
CapThreads(nT, nJ) == IF nJ < nT THEN nJ ELSE nT

\* line 131
QueueSize(nT, nJ) == Min(2 * nT, nJ)

LoadParams ==
  /\ mainpc = "load"
  /\ IF \E i \in 1..Len(dataFiles) : dataFiles[i].cfg = "missingParam"
       THEN \* KeyError in product(paramList[-1]["SNR"], ...)
            /\ mainpc' = "failed"
            /\ UNCHANGED <<nThread, nTotalJobs, max_queue_size, remaining_jobs>>
       ELSE LET nJ == TotalJobs(dataFiles)
                nT == CapThreads(nThreadArg, nJ)
            IN  /\ nTotalJobs' = nJ
                /\ nThread' = nT
                /\ IF nT < 1
                     THEN \* Pool(processes=0) raises ValueError
                          /\ mainpc' = "failed"
                          /\ UNCHANGED <<max_queue_size, remaining_jobs>>
                     ELSE /\ max_queue_size' = QueueSize(nT, nJ)
                          /\ remaining_jobs' = nJ
                          /\ mainpc' = "start"
  /\ UNCHANGED <<dataFiles, nThreadArg, jobs, trial, it, params, qbuffer,
                 qpipe, waiting, running, exited, done, died, optVars>>

(***************************************************************************)
(* line 136-145: start one worker process per loop iteration.              *)
(***************************************************************************)
StartWorker ==
  /\ mainpc = "start"
  /\ jobs < nThread
  /\ jobs' = jobs + 1
  /\ waiting' = waiting + 1
  /\ IF jobs + 1 = nThread
       THEN mainpc' = "trial" /\ trial' = 1
       ELSE UNCHANGED <<mainpc, trial>>
  /\ UNCHANGED <<dataFiles, nThreadArg, nThread, nTotalJobs, max_queue_size,
                 it, remaining_jobs, params, qbuffer, qpipe, running, exited,
                 done, died, optVars>>

(***************************************************************************)
(* line 146-159: the head of one trial; line 205-216 runs no iteration.    *)
(***************************************************************************)
BeginTrial ==
  /\ mainpc = "trial"
  /\ IF trial > nTrials
       THEN mainpc' = "join" /\ UNCHANGED <<trial, it>>
       ELSE IF dataFiles[trial].cfg = "missingObject"
       THEN \* KeyError in param["eidParam"]
            mainpc' = "failed" /\ UNCHANGED <<trial, it>>
       ELSE IF nSimJobsList[trial] = 0
       THEN trial' = trial + 1 /\ UNCHANGED <<mainpc, it>>
       ELSE mainpc' = "params" /\ it' = 1 /\ UNCHANGED trial
  /\ UNCHANGED <<dataFiles, nThreadArg, nThread, nTotalJobs, max_queue_size,
                 jobs, remaining_jobs, params, qbuffer, qpipe, waiting, running,
                 exited, done, died, optVars>>

(***************************************************************************)
(* line 161-191: write the values of job (trial, it) into the trial's      *)
(* ergParam and eidParam objects, the same objects for every job.          *)
(***************************************************************************)
SetParams ==
  /\ mainpc = "params"
  /\ params' = [params EXCEPT ![trial] = it]
  /\ mainpc' = "put"
  /\ UNCHANGED <<dataFiles, nThreadArg, nThread, nTotalJobs, max_queue_size,
                 jobs, trial, it, remaining_jobs, qbuffer, qpipe, waiting,
                 running, exited, done, died, optVars>>

(***************************************************************************)
(* The work queue.  Queue(maxsize) holds a semaphore of maxsize permits:   *)
(* put takes one and appends the item (a reference to the objects) to the  *)
(* buffer, get gives one back.  A feeder thread of the producer pickles    *)
(* the buffered item and writes it to the pipe.                            *)
(***************************************************************************)
QueueLen == Len(qbuffer) + Len(qpipe)

QueueFullNever == FALSE
QueueFull == QueueLen >= max_queue_size

\* line 194-203: put blocks while the queue is full; then the next job
Put ==
  /\ mainpc = "put"
  /\ ~QueueFull
  /\ qbuffer' = Append(qbuffer, <<trial, it>>)
  /\ remaining_jobs' = remaining_jobs - 1
  /\ IF it < nSimJobsList[trial]
       THEN it' = it + 1 /\ mainpc' = "params" /\ UNCHANGED trial
       ELSE trial' = trial + 1 /\ mainpc' = "trial" /\ UNCHANGED it
  /\ UNCHANGED <<dataFiles, nThreadArg, nThread, nTotalJobs, max_queue_size,
                 jobs, params, qpipe, waiting, running, exited, done, died,
                 optVars>>

\* the feeder thread: the item is pickled with the values its objects hold
\* when the feeder runs
Feed ==
  /\ qbuffer # <<>>
  /\ LET slot == Head(qbuffer)
     IN  qpipe' = Append(qpipe, [slot |-> slot,
                                 content |-> <<slot[1], params[slot[1]]>>])
  /\ qbuffer' = Tail(qbuffer)
  /\ UNCHANGED <<dataFiles, nThreadArg, mainpc, nThread, nTotalJobs,
                 max_queue_size, jobs, trial, it, remaining_jobs, params,
                 waiting, running, exited, done, died, optVars>>

(***************************************************************************)
(* QueueWorker, line 52-86.  The worker processes run the same code and    *)
(* nothing tells them apart: the model keeps how many wait and how many    *)
(* have returned, and which items the others hold.                         *)
(***************************************************************************)
\* line 55: an item arrived within the timeout
Get ==
  /\ waiting > 0
  /\ qpipe # <<>>
  /\ waiting' = waiting - 1
  /\ running' = running \cup {Head(qpipe)}
  /\ qpipe' = Tail(qpipe)
  /\ UNCHANGED <<dataFiles, nThreadArg, mainpc, nThread, nTotalJobs,
                 max_queue_size, jobs, trial, it, remaining_jobs, params,
                 qbuffer, exited, done, died, optVars>>

\* line 55, 79-84: nothing arrived for 5 seconds; the worker returns.  The
\* code bounds no step of the producer or of the feeder in time, so the
\* timeout may expire whenever the pipe is empty.
Timeout ==
  /\ waiting > 0
  /\ qpipe = <<>>
  /\ waiting' = waiting - 1
  /\ exited' = exited + 1
  /\ UNCHANGED <<dataFiles, nThreadArg, mainpc, nThread, nTotalJobs,
                 max_queue_size, jobs, trial, it, remaining_jobs, params,
                 qbuffer, qpipe, running, done, died, optVars>>

\* line 70-75: the moth trajectory is loaded by the worker
MothFails(item) == dataFiles[item.content[1]].cfg = "mothUnresolved"

\* line 70-78: the job runs to completion and the worker gets again
RunJob ==
  /\ \E item \in running :
       /\ ~MothFails(item)
       /\ done' = done \cup {item.content}
       /\ running' = running \ {item}
  /\ waiting' = waiting + 1
  /\ UNCHANGED <<dataFiles, nThreadArg, mainpc, nThread, nTotalJobs,
                 max_queue_size, jobs, trial, it, remaining_jobs, params,
                 qbuffer, qpipe, exited, died, optVars>>

\* line 85-86: the job raises (loadMothData cannot load, or a numeric
\* failure inside EIDSim); the exception leaves QueueWorker and ends the
\* worker process
JobRaises ==
  /\ \E item \in running :
       /\ running' = running \ {item}
       /\ died' = died \cup {item}
  /\ UNCHANGED <<dataFiles, nThreadArg, mainpc, nThread, nTotalJobs,
                 max_queue_size, jobs, trial, it, remaining_jobs, params,
                 qbuffer, qpipe, waiting, exited, done, optVars>>

(***************************************************************************)
(* line 219-220: join every worker; the loop ends when all of them have    *)
(* terminated.                                                             *)
(***************************************************************************)
Live == waiting + Cardinality(running)

Join ==
  /\ mainpc = "join"
  /\ Live = 0
  /\ mainpc' = "returned"
  /\ UNCHANGED <<dataFiles, nThreadArg, nThread, nTotalJobs, max_queue_size,
                 jobs, trial, it, remaining_jobs, params, qbuffer, qpipe,
                 waiting, running, exited, done, died, optVars>>

Producer == LoadParams \/ StartWorker \/ BeginTrial \/ SetParams \/ Put \/ Join
Worker == Get \/ Timeout \/ RunJob \/ JobRaises

NextQueue == Producer \/ Feed \/ Worker

(***************************************************************************)
(*                                                                         *)
(* Part II: ergodic.py.                                                    *)
(*                                                                         *)
(* Exact rational arithmetic: a number is <<numerator, denominator>> in    *)
(* lowest terms with a positive denominator.                               *)
(***************************************************************************)
Abs(a) == IF a < 0 THEN -a ELSE a

RECURSIVE GCD(_, _)
GCD(a, b) == IF b = 0 THEN a ELSE GCD(b, a % b)

Rat(n, d) ==
  LET g == GCD(Abs(n), Abs(d))
      s == IF d < 0 THEN -1 ELSE 1
  IN  <<(s * n) \div g, (s * d) \div g>>

Q(n) == <<n, 1>>
RAdd(a, b) ==
  LET l == (a[2] \div GCD(a[2], b[2])) * b[2]
  IN  Rat(a[1] * (l \div a[2]) + b[1] * (l \div b[2]), l)
RNeg(a) == <<-a[1], a[2]>>
RSub(a, b) == RAdd(a, RNeg(b))
RMul(a, b) ==
  LET g1 == GCD(Abs(a[1]), b[2])
      g2 == GCD(Abs(b[1]), a[2])
  IN  Rat((a[1] \div g1) * (b[1] \div g2), (a[2] \div g2) * (b[2] \div g1))
RLt(a, b) == RSub(a, b)[1] < 0
RLe(a, b) == RSub(a, b)[1] <= 0
RFloor(a) == a[1] \div a[2]

(***************************************************************************)
(* The time grid, SimParameters.py line 13, 20, 24: time =                 *)
(* linspace(0, timeHorizon, tRes).  The model keeps the horizon and        *)
(* shortens the grid to tRes samples.                                      *)
(***************************************************************************)
tRes == 3
timeHorizon == 1

Grid == 1..tRes
odeDeltaT == Rat(timeHorizon, tRes - 1)                \* ergodic.py line 34
time == [i \in Grid |-> RMul(Q(i - 1), odeDeltaT)]

\* interp1d(time, y): linear interpolation, defined on [time[0], time[-1]]
Interp(y, t) ==
  LET k0 == RFloor(RMul(t, Rat(tRes - 1, timeHorizon)))
      k == IF k0 > tRes - 2 THEN tRes - 2 ELSE k0
      frac == RMul(RSub(t, time[k + 1]), Rat(tRes - 1, timeHorizon))
  IN  RAdd(y[k + 1], RMul(frac, RSub(y[k + 2], y[k + 1])))

\* scipy.integrate.trapz(y, time)
RECURSIVE TrapzFrom(_, _)
TrapzFrom(y, i) ==
  IF i >= tRes THEN Q(0)
  ELSE RAdd(RMul(RMul(RSub(time[i + 1], time[i]), Rat(1, 2)),
                 RAdd(y[i], y[i + 1])),
            TrapzFrom(y, i + 1))
trapz(y) == TrapzFrom(y, 1)

OutsideGrid(t) == RLt(time[tRes], t) \/ RLt(t, time[1])

(***************************************************************************)
(* ProjectionBasedOpt: the dynamics and the control cost.                  *)
(***************************************************************************)
P1 == 1       \* ergodic.py line 83, 99
Qk == 1       \* line 29
Rk == 1       \* line 30

\* line 49-57
peqns(t, pp, Al, Bl, Rn, Qn) ==
  IF OutsideGrid(t) THEN Q(0)
  ELSE RAdd(RSub(RAdd(RMul(pp, Interp(Al, t)), RMul(Interp(Al, t), pp)),
                 RMul(RMul(pp, Interp(Bl, t)), RMul(Interp(Bl, t), pp))),
            Qn)

\* line 59-68: the substitution of line 62 follows the range test of line 60
reqns(t, rr, Al, Bl, a, b, Psol) ==
  IF OutsideGrid(t) THEN Q(0)
  ELSE LET s == RSub(time[tRes], t)
       IN  RSub(RAdd(RMul(RSub(Interp(Al, s),
                               RMul(RMul(Interp(Bl, s), Interp(Bl, s)),
                                    Interp(Psol, s))),
                          rr),
                     Interp(a, s)),
                RMul(RMul(Interp(Psol, s), Interp(Bl, s)), Interp(b, s)))

\* line 135-138
fofx(t, X, U) == IF OutsideGrid(t) THEN Q(0) ELSE Interp(U, t)

\* line 162-164
cost_pointwise(self, x, u) == RMul(Rat(1, 2), RMul(u, RMul(self.R, u)))

\* line 166-170
cost(self, X, U) == trapz([i \in Grid |-> cost_pointwise(self, X[i], U[i])])

\* line 176-178
dldu_pointwise(self, x, u) == RMul(self.R, u)

\* line 275-281
proj(t, X, K, mu, alpha) ==
  IF OutsideGrid(t) THEN Q(0)
  ELSE RAdd(Interp(mu, t), RMul(Interp(K, t), RSub(Interp(alpha, t), X)))

\* line 283-285
projcontrol(X, K, mu, alpha) == RAdd(mu, RMul(K, RSub(alpha, X)))

(***************************************************************************)
(* The integrator, ergodic.py line 34-47: solve_ivp with method RK23,      *)
(* first_step = max_step = the grid spacing and t_eval = time.  One step   *)
(* is the Bogacki-Shampine third-order formula.  The step-size control of  *)
(* RK23 can only shorten a step whose error estimate exceeds rtol, atol;   *)
(* the model takes every step as accepted, as it is while the estimate     *)
(* stays within the tolerances: every step has the grid spacing and the    *)
(* solution is sampled at the step ends.  For simulate the error estimate  *)
(* is exactly zero (the right-hand side is linear in t within a step), so  *)
(* there the steps are accepted at any spacing.                            *)
(***************************************************************************)
\* line 45-47, 85-87, 270, 299: the function handed to the integrator, applied
Rhs(f, t, y) ==
  CASE f.fun = "fofx" -> fofx(t, y, f.U)
    [] f.fun = "peqns" -> peqns(t, y, f.Al, f.Bl, f.Rn, f.Qn)
    [] f.fun = "proj" -> proj(t, y, f.K, f.mu, f.alpha)
    [] f.fun = "reqns" -> reqns(t, y, f.Al, f.Bl, f.a, f.b, f.Psol)

\* one step: the three stages and their combination
RK23Combine(y, k1, k2, k3) ==
  RAdd(y, RMul(odeDeltaT, RAdd(RMul(Rat(2, 9), k1),
                               RAdd(RMul(Rat(1, 3), k2), RMul(Rat(4, 9), k3)))))
RK23Stage3(f, t, y, k1, k2) ==
  RK23Combine(y, k1, k2,
              Rhs(f, RAdd(t, RMul(Rat(3, 4), odeDeltaT)),
                  RAdd(y, RMul(RMul(Rat(3, 4), odeDeltaT), k2))))
RK23Stage2(f, t, y, k1) ==
  RK23Stage3(f, t, y, k1,
             Rhs(f, RAdd(t, RMul(Rat(1, 2), odeDeltaT)),
                 RAdd(y, RMul(RMul(Rat(1, 2), odeDeltaT), k1))))
RK23StepEuler(f, t, y) == RAdd(y, RMul(odeDeltaT, Rhs(f, t, y)))
RK23Step(f, t, y) == RK23Stage2(f, t, y, Rhs(f, t, y))

\* the samples of the solution at the grid points, from sample i on
RECURSIVE Solve(_, _, _)
Solve(f, ys, i) ==
  IF i > tRes THEN ys
  ELSE Solve(f, Append(ys, RK23Step(f, time[i - 1], ys[i - 1])), i + 1)

odeIntegrator(f, y0) == Solve(f, <<y0>>, 2)

\* line 266-273
simulate(self, X0, U) == odeIntegrator([fun |-> "fofx", U |-> U], X0)

\* line 92-95
Gain(B, psoln) == [i \in Grid |-> RMul(B[i], psoln[i])]

\* line 81-96: the value of K; the tensors it reads are A_interp, B_interp
\* and B_current
KsolValue(self) ==
  Gain(self.B_current.val,
       odeIntegrator([fun |-> "peqns", Al |-> self.A_interp.val,
                      Bl |-> self.B_interp.val, Rn |-> Q(Rk), Qn |-> Q(Qk)],
                     Q(P1)))

\* line 98-107: the samples are returned as the integrator produced them.
\* Al and Bl are the samples of self.A_interp and self.B_interp; Rn and Qn
\* are 1 (line 27-28).
Psol(Al, Bl) ==
  odeIntegrator([fun |-> "peqns", Al |-> Al, Bl |-> Bl, Rn |-> Q(1),
                 Qn |-> Q(1)],
                Q(P1))

\* numpy.flip(soln, 0), line 128
flip(soln) == [i \in 1..Len(soln) |-> soln[Len(soln) + 1 - i]]

\* line 109-129: Al, Bl, a, b are the samples of the four interpolants of
\* self, P those of P_interp; the integration starts from rinit2 = 0
Rsol(Al, Bl, a, b, P) ==
  flip(odeIntegrator([fun |-> "reqns", Al |-> Al, Bl |-> Bl, a |-> a, b |-> b,
                      Psol |-> P],
                     Q(0)))

\* line 303-308
Projected(xsoln, Ks, mu, alpha) ==
  <<xsoln, [i \in Grid |-> projcontrol(xsoln[i], Ks[i], mu[i], alpha[i])]>>

\* line 287-308: the trajectory project returns, given the gain Ks
projectValue(Ks, X0, traj) ==
  Projected(odeIntegrator([fun |-> "proj", K |-> Ks, mu |-> traj[2],
                           alpha |-> traj[1]],
                          X0),
            Ks, traj[2], traj[1])

(***************************************************************************)
(* ErgodicOpt: the workspace barrier.                                      *)
(***************************************************************************)
wlimit == 1        \* line 335
wBarrCost == 100   \* SimParameters.py line 9
wErgCost == 5      \* SimParameters.py line 10

\* line 369-374: the penalty of one sample
barrierSampleLinear(x) ==
  IF RLt(Q(wlimit), x) THEN RSub(x, Q(wlimit))
  ELSE IF RLt(x, Q(0)) THEN RNeg(x) ELSE Q(0)
barrierSample(x) ==
  RAdd(IF RLt(Q(wlimit), x)
         THEN RMul(RSub(x, Q(wlimit)), RSub(x, Q(wlimit))) ELSE Q(0),
       IF RLt(x, Q(0)) THEN RMul(x, x) ELSE Q(0))

\* line 368-376
barrier(xk) == trapz([i \in Grid |-> barrierSample(xk[i])])

\* line 378-386
Dbarrier(xk) ==
  [i \in Grid |->
     IF RLt(xk[i], Q(0)) THEN RMul(Q(2), xk[i])
     ELSE IF RLt(Q(wlimit), xk[i]) THEN RMul(Q(2), RSub(xk[i], Q(wlimit)))
     ELSE Q(0)]

(***************************************************************************)
(* The optimizer object.  opt.attrs is the set of attributes assigned so   *)
(* far (reading another one raises AttributeError).  A tensor is a record: *)
(* val holds its samples and `of` the nominal trajectory <<X, U>> that was *)
(* stored when it was computed.  The Fourier coefficients cannot be        *)
(* computed in rational arithmetic and are kept as terms over the inputs   *)
(* they were computed from: ck from X, uk from the density, ak from X, ck  *)
(* and uk.                                                                 *)
(***************************************************************************)
NoTraj == <<<<>>, <<>>>>
NoTensor == [val |-> <<>>, of |-> NoTraj]
NoCk == [X |-> <<>>]
NoUk == [pdf |-> 0]
NoAk == [X |-> <<>>, ck |-> NoCk, uk |-> NoUk]

Cur(self) == <<self.X_current, self.U_current>>
Has(self, names) == names \subseteq self.attrs
Assigned(self, names) == [self EXCEPT !.attrs = @ \cup names]

\* line 324-349 (and line 9-47): the object after construction
NewErgodicOpt(R, Quinit, uinit) ==
  [attrs |-> {}, R |-> R, Quinit |-> Quinit, uinit |-> uinit,
   barrcost |-> Q(wBarrCost), ergcost |-> Q(wErgCost),
   X_current |-> <<>>, U_current |-> <<>>,
   pdf |-> 0, uk |-> NoUk, ck |-> NoCk, ak |-> NoAk,
   A_current |-> NoTensor, B_current |-> NoTensor,
   a_current |-> [erg |-> NoAk, barr |-> <<>>, of |-> NoTraj],
   b_current |-> NoTensor,
   A_interp |-> NoTensor, B_interp |-> NoTensor,
   a_interp |-> [erg |-> NoAk, barr |-> <<>>, of |-> NoTraj],
   b_interp |-> NoTensor,
   K |-> NoTensor, P_current |-> NoTensor, R_current |-> NoTensor]

\* line 351-361, 388-395: resample, normalize, recompute uk
set_pdf_andGradient(self, pdf) ==
  Assigned([self EXCEPT !.pdf = pdf, !.uk = [pdf |-> pdf],
                        !.ak = [@ EXCEPT !.uk = [pdf |-> pdf]],
                        !.a_current = [@ EXCEPT !.erg =
                                         [@ EXCEPT !.uk = [pdf |-> pdf]]]],
           {"pdf", "uk"})
set_pdf(self, pdf) ==
  Assigned([self EXCEPT !.pdf = pdf, !.uk = [pdf |-> pdf]], {"pdf", "uk"})

\* line 143-149
dfdx(self) ==
  Assigned([self EXCEPT !.A_current =
              [val |-> [i \in Grid |-> Q(0)], of |-> Cur(self)]],
           {"A_current"})

\* line 154-160
dfdu(self) ==
  Assigned([self EXCEPT !.B_current =
              [val |-> [i \in Grid |-> Q(1)], of |-> Cur(self)]],
           {"B_current"})

\* line 397-408
ckeval(self) ==
  Assigned([self EXCEPT !.ck = [X |-> self.X_current]], {"ck"})

\* line 410-425
akeval(self) ==
  Assigned([self EXCEPT !.ak =
              [X |-> self.X_current, ck |-> self.ck, uk |-> self.uk]],
           {"ak"})

\* line 434-437
dldx(self) ==
  Assigned([self EXCEPT !.a_current =
              [erg |-> self.ak,
               barr |-> [i \in Grid |->
                           RMul(self.barrcost, Dbarrier(self.X_current)[i])],
               of |-> Cur(self)]],
           {"a_current"})

\* line 195-205
dldu(self) ==
  LET dldul == [i \in Grid |->
                  dldu_pointwise(self, self.X_current[i], self.U_current[i])]
  IN  Assigned([self EXCEPT !.b_current =
                  [val |-> [dldul EXCEPT ![1] =
                              RAdd(@, RMul(self.uinit, self.Quinit))],
                   of |-> Cur(self)]],
               {"b_current"})

\* line 310-312, 440-441
StoreXOnly(self, X, U) ==
  Assigned([self EXCEPT !.X_current = X], {"X_current", "U_current"})
StoreTraj(self, X, U) ==
  Assigned([self EXCEPT !.X_current = X, !.U_current = U],
           {"X_current", "U_current"})

\* line 448-451
BuildInterps(self) ==
  Assigned([self EXCEPT !.A_interp = self.A_current,
                        !.B_interp = self.B_current,
                        !.a_interp = self.a_current,
                        !.b_interp = self.b_current],
           {"A_interp", "B_interp", "a_interp", "b_interp"})

\* line 439-451: ErgodicOpt.update_traj.  akeval reads uk: before any
\* set_pdf it raises AttributeError, after X, U and ck were stored.
update_traj_raises(self) == ~Has(self, {"uk"})

update_traj_akFirst(self, X, U) ==
  IF update_traj_raises(self)
    THEN ckeval(StoreTraj(self, X, U))
    ELSE BuildInterps(dldu(dldx(dfdu(dfdx(
           ckeval(akeval(StoreTraj(self, X, U))))))))
update_traj(self, X, U) ==
  IF update_traj_raises(self)
    THEN ckeval(StoreTraj(self, X, U))
    ELSE BuildInterps(dldu(dldx(dfdu(dfdx(
           akeval(ckeval(StoreTraj(self, X, U))))))))

\* line 81-96: Ksol reads A_interp, B_interp and B_current and caches K
\* (line 95)
KsolNeeds == {"A_interp", "B_interp", "B_current"}
KsolReads(self) == {self.A_interp.of, self.B_interp.of, self.B_current.of}
StoreK(self, Ks) ==
  Assigned([self EXCEPT !.K = [val |-> Ks, of |-> self.B_current.of]], {"K"})
Ksol(self) == StoreK(self, KsolValue(self))

\* line 98-107: Psol reads A_interp and B_interp
PsolNeeds == {"A_interp", "B_interp"}
PsolReads(self) == {self.A_interp.of, self.B_interp.of}

\* line 109-129: Rsol reads all four interpolants
RsolNeeds == {"A_interp", "B_interp", "a_interp", "b_interp"}
RsolReads(self) ==
  {self.A_interp.of, self.B_interp.of, self.a_interp.of, self.b_interp.of}

\* line 220-264: descentdirection reads the nominal trajectory, calls Psol
\* and Rsol, caches P_current and R_current, and reads the four tensors
descentNeeds ==
  {"X_current", "U_current", "A_current", "B_current", "a_current",
   "b_current"} \cup PsolNeeds \cup RsolNeeds
descentReads(self) ==
  PsolReads(self) \cup RsolReads(self) \cup
  {self.A_current.of, self.B_current.of, self.a_current.of,
   self.b_current.of}
descentdirection_cachesGain(self) ==
  Assigned([self EXCEPT !.P_current = [val |-> <<>>, of |-> self.A_interp.of],
                        !.R_current = [val |-> <<>>, of |-> self.a_interp.of],
                        !.K = [val |-> <<>>, of |-> self.B_current.of]],
           {"P_current", "R_current", "K"})
descentdirection(self) ==
  Assigned([self EXCEPT !.P_current = [val |-> <<>>, of |-> self.A_interp.of],
                        !.R_current = [val |-> <<>>, of |-> self.a_interp.of]],
           {"P_current", "R_current"})

\* line 207-218: dcost reads a_current and b_current
dcostNeeds == {"a_current", "b_current"}
dcostReads(self) == {self.a_current.of, self.b_current.of}

(***************************************************************************)
(* The calls on the optimizer.  Inputs are drawn from small sets of        *)
(* trajectories on the grid: a constant with one sample moved.             *)
(***************************************************************************)
Spike(base, k, v) == [i \in Grid |-> IF i = k THEN v ELSE base]

StateVals == {Rat(-1, 2), Q(0), Rat(1, 2), Q(1), Rat(3, 2)}
CtrlVals == {Q(-1), Q(0), Q(1)}
XTrajs ==
  { Spike(Rat(1, 2), k, v) : k \in Grid, v \in StateVals } \cup
  { [i \in Grid |-> IF i = 1 THEN a ELSE IF i = tRes THEN b ELSE Rat(1, 2)] :
      a \in {Rat(-1, 2), Rat(3, 2)}, b \in {Rat(-1, 2), Rat(3, 2)} }
UTrajs == { Spike(Q(0), k, v) : k \in Grid, v \in CtrlVals }
NominalX == { Spike(Rat(1, 2), 1, Rat(1, 2)), Spike(Rat(1, 2), tRes, Rat(3, 2)) }
NominalU == { Spike(Q(0), 1, Q(0)), Spike(Q(0), 1, Q(1)) }
Pdfs == {1, 2}
Weights == {Rat(1, 20), Q(1)}     \* wControl
InitWeights == {Q(0), Q(1)}       \* wInitCtrl
InitCtrls == {Q(1)}               \* uinit

Called(op, raised, args, val) ==
  [op |-> op, raised |-> raised, args |-> args, val |-> val, fed |-> FALSE]

InitOpt ==
  /\ \E R \in Weights, Quinit \in InitWeights, uinit \in InitCtrls :
       opt = NewErgodicOpt(R, Quinit, uinit)
  /\ ret = Called("new", FALSE, <<>>, <<>>)
  /\ reads = {}
  /\ lastTraj = NoTraj

Do_set_pdf(PS) ==
  /\ \E p \in PS :
       /\ opt' = set_pdf(opt, p)
       /\ ret' = Called("set_pdf", FALSE, <<p>>, <<>>)
  /\ reads' = {}
  /\ UNCHANGED <<lastTraj, queueVars>>

Do_update_traj(XS, US) ==
  /\ \E X \in XS, U \in US :
       /\ opt' = update_traj(opt, X, U)
       /\ ret' = Called("update_traj", update_traj_raises(opt), <<X, U>>, <<>>)
       /\ lastTraj' = <<X, U>>
  /\ reads' = {}
  /\ UNCHANGED queueVars

Do_cost(XS, US) ==
  /\ \E X \in XS, U \in US :
       ret' = Called("cost", FALSE, <<X, U>>, cost(opt, X, U))
  /\ reads' = {}
  /\ UNCHANGED <<opt, lastTraj, queueVars>>

\* line 172-174
Call_eval_cost ==
  /\ ret' = IF Has(opt, {"X_current", "U_current"})
              THEN Called("eval_cost", FALSE, <<>>,
                          cost(opt, opt.X_current, opt.U_current))
              ELSE Called("eval_cost", TRUE, <<>>, <<>>)
  /\ reads' = {}
  /\ UNCHANGED <<opt, lastTraj, queueVars>>

\* line 427-432, 363-366
Call_evalcost ==
  /\ ret' = IF Has(opt, {"X_current", "U_current", "ck", "uk"})
              THEN Called("evalcost", FALSE, <<>>,
                          [cost |-> cost(opt, opt.X_current, opt.U_current),
                           barr |-> RMul(opt.barrcost, barrier(opt.X_current)),
                           erg |-> <<opt.ergcost, opt.ck, opt.uk>>])
              ELSE Called("evalcost", TRUE, <<>>, <<>>)
  /\ reads' = {}
  /\ UNCHANGED <<opt, lastTraj, queueVars>>

Do_barrier(XS) ==
  /\ \E X \in XS : ret' = Called("barrier", FALSE, <<X>>, barrier(X))
  /\ reads' = {}
  /\ UNCHANGED <<opt, lastTraj, queueVars>>

Do_simulate(X0S, US) ==
  /\ \E X0 \in X0S, U \in US :
       ret' = Called("simulate", FALSE, <<X0, U>>, simulate(opt, X0, U))
  /\ reads' = {}
  /\ UNCHANGED <<opt, lastTraj, queueVars>>

\* simulate called with the initial state and the control of the project
\* call that has just returned
Call_simulate_projected ==
  /\ ret.op = "project" /\ ~ret.raised
  /\ \E X0 \in {ret.args[1]}, Up \in {ret.val[2]} :
       ret' = [op |-> "simulate", raised |-> FALSE, args |-> <<X0, Up>>,
               val |-> simulate(opt, X0, Up),
               fed |-> TRUE, Xp |-> ret.val[1], ref |-> ret.args[2]]
  /\ reads' = {}
  /\ UNCHANGED <<opt, lastTraj, queueVars>>

Do_project(X0S, AS, MS) ==
  /\ \E X0 \in X0S, alpha \in AS, mu \in MS :
       IF Has(opt, KsolNeeds)
         THEN \E self \in {Ksol(opt)} :
                /\ opt' = self
                /\ ret' = Called("project", FALSE, <<X0, <<alpha, mu>>>>,
                                 projectValue(self.K.val, X0, <<alpha, mu>>))
                /\ reads' = KsolReads(opt)
         ELSE /\ ret' = Called("project", TRUE, <<X0, <<alpha, mu>>>>, <<>>)
              /\ reads' = {}
              /\ UNCHANGED opt
  /\ UNCHANGED <<lastTraj, queueVars>>

Call_descentdirection ==
  /\ IF Has(opt, descentNeeds)
       THEN /\ opt' = descentdirection(opt)
            /\ ret' = Called("descentdirection", FALSE, <<>>, <<>>)
            /\ reads' = descentReads(opt)
       ELSE /\ ret' = Called("descentdirection", TRUE, <<>>, <<>>)
            /\ reads' = {}
            /\ UNCHANGED opt
  /\ UNCHANGED <<lastTraj, queueVars>>

Do_dcost(XS, US) ==
  /\ \E dX \in XS, dU \in US :
       IF Has(opt, dcostNeeds)
         THEN /\ ret' = Called("dcost", FALSE, <<dX, dU>>,
                               <<opt.a_current, opt.b_current.val>>)
              /\ reads' = dcostReads(opt)
         ELSE /\ ret' = Called("dcost", TRUE, <<dX, dU>>, <<>>)
              /\ reads' = {}
  /\ UNCHANGED <<opt, lastTraj, queueVars>>

\* the optimizer as an object: every call, on few inputs
Call_set_pdf == Do_set_pdf(Pdfs)
Call_update_traj == Do_update_traj(NominalX, NominalU)
OptX0s == {Rat(1, 2)}
OptAlphas == {Spike(Rat(1, 2), 1, Q(0))}
OptMus == {Spike(Q(0), 1, Q(0))}
Directions == {Spike(Q(1), 1, Q(1))}
Call_project == Do_project(OptX0s, OptAlphas, OptMus)
Call_dcost == Do_dcost(Directions, Directions)

NextOpt ==
  \/ Call_set_pdf
  \/ Call_update_traj
  \/ Call_eval_cost
  \/ Call_evalcost
  \/ Call_project
  \/ Call_descentdirection
  \/ Call_dcost

\* the numeric operations, on more inputs, of an optimizer whose density and
\* nominal trajectory have been set
NumX == {Spike(Rat(1, 2), tRes, Rat(3, 2))}
NumX0s == {Rat(1, 2)}
RefX0s == {Q(0), Rat(1, 2)}
RefAlphas == {Spike(Rat(1, 2), 1, Q(0)), Spike(Rat(1, 2), tRes, Q(1))}
RefMus == {Spike(Q(0), 1, Q(0)), Spike(Q(0), tRes, Q(1))}

InitNum ==
  /\ \E R \in Weights, Quinit \in InitWeights, uinit \in InitCtrls,
        p \in {1}, X \in NumX, U \in NominalU :
       /\ opt = update_traj(set_pdf(NewErgodicOpt(R, Quinit, uinit), p), X, U)
       /\ ret = Called("update_traj", FALSE, <<X, U>>, <<>>)
       /\ lastTraj = <<X, U>>
  /\ reads = {}

Num_cost == Do_cost(NumX, UTrajs)
Num_barrier == Do_barrier(XTrajs)
Num_simulate == Do_simulate(NumX0s, UTrajs)
Num_project == Do_project(RefX0s, RefAlphas, RefMus)

NextNum ==
  \/ Num_cost
  \/ Call_eval_cost
  \/ Num_barrier
  \/ Num_simulate
  \/ Num_project
  \/ Call_simulate_projected

(***************************************************************************)
(* The boundary-value solvers, called on their own.  The right-hand sides  *)
(* peqns and reqns are applied to coefficient samples on the grid: those   *)
(* update_traj builds for the point-mass model (A = 0 from dfdx, B = 1     *)
(* from dfdu) and samples that vary along the grid, as a dynamics model    *)
(* with other dfdx, dfdu hands them over and as a, b and P do.  Psol, Ksol *)
(* and Rsol are called on the optimizer after update_traj, as              *)
(* descentdirection and project call them; the state gradient a, whose     *)
(* ergodic part is not a rational number, is drawn from Hooksa.            *)
(***************************************************************************)
Hooksa == {[i \in Grid |-> Q(0)], Spike(Q(0), tRes, Q(1))}
SolverVals == {Q(1), Q(2)}

\* samples of A, B, a, b and P: the point-mass model's, and two that vary
Coeffs ==
  { [A |-> [i \in Grid |-> Q(0)], B |-> [i \in Grid |-> Q(1)],
     a |-> Spike(Q(0), tRes, Q(1)), b |-> Spike(Q(0), 1, Q(1)),
     P |-> [i \in Grid |-> Q(1)]],
    [A |-> Spike(Q(0), 1, Q(1)), B |-> [i \in Grid |-> Q(1)],
     a |-> [i \in Grid |-> Q(0)], b |-> Spike(Q(1), 1, Q(2)),
     P |-> Spike(Q(1), 1, Q(2))],
    [A |-> [i \in Grid |-> Q(0)], B |-> Spike(Q(1), tRes, Q(2)),
     a |-> Spike(Q(0), 1, Q(1)), b |-> [i \in Grid |-> Q(1)],
     P |-> [i \in Grid |-> Q(1)]] }

\* the times at which a step of the integrator evaluates its function
StageTimes ==
  { RAdd(time[i], RMul(c, odeDeltaT)) :
      i \in 1..(tRes - 1), c \in {Q(0), Rat(1, 2), Rat(3, 4)} }
  \cup {time[tRes]}

Call_peqns ==
  /\ \E t \in StageTimes, pp \in SolverVals, c \in Coeffs :
       ret' = Called("peqns", FALSE, <<t, pp, c.A, c.B>>,
                     peqns(t, pp, c.A, c.B, Q(1), Q(1)))
  /\ reads' = {}
  /\ UNCHANGED <<opt, lastTraj, queueVars>>

Call_reqns ==
  /\ \E t \in StageTimes, rr \in SolverVals, c \in Coeffs :
       ret' = Called("reqns", FALSE, <<t, rr, c.A, c.B, c.a, c.b, c.P>>,
                     reqns(t, rr, c.A, c.B, c.a, c.b, c.P))
  /\ reads' = {}
  /\ UNCHANGED <<opt, lastTraj, queueVars>>

Call_Psol ==
  /\ Has(opt, PsolNeeds)
  /\ ret' = Called("Psol", FALSE, <<>>,
                   Psol(opt.A_interp.val, opt.B_interp.val))
  /\ reads' = PsolReads(opt)
  /\ UNCHANGED <<opt, lastTraj, queueVars>>

\* line 225-228: Rsol is handed the interpolant of what Psol returned
Call_Rsol ==
  /\ Has(opt, RsolNeeds)
  /\ \E a \in Hooksa, Ps \in {Psol(opt.A_interp.val, opt.B_interp.val)} :
       ret' = Called("Rsol", FALSE, <<a>>,
                     Rsol(opt.A_interp.val, opt.B_interp.val, a,
                          opt.b_interp.val, Ps))
  /\ reads' = RsolReads(opt)
  /\ UNCHANGED <<opt, lastTraj, queueVars>>

Call_Ksol ==
  /\ Has(opt, KsolNeeds)
  /\ \E self \in {Ksol(opt)} :
       /\ opt' = self
       /\ ret' = Called("Ksol", FALSE, <<>>, self.K.val)
  /\ reads' = KsolReads(opt)
  /\ UNCHANGED <<lastTraj, queueVars>>

\* the optimizer after set_pdf and update_traj
InitBvp ==
  /\ \E R \in Weights, X \in NumX, U \in {Spike(Q(0), 1, Q(1))} :
       /\ opt = update_traj(set_pdf(NewErgodicOpt(R, Q(1), Q(1)), 1), X, U)
       /\ ret = Called("update_traj", FALSE, <<X, U>>, <<>>)
       /\ lastTraj = <<X, U>>
  /\ reads = {}

NextBvp ==
  \/ Call_peqns
  \/ Call_reqns
  \/ Call_Psol
  \/ Call_Rsol
  \/ Call_Ksol

(***************************************************************************)
(* The methods that read the optimizer, called in any order between        *)
(* set_pdf and update_traj, on one input each.                             *)
(***************************************************************************)
Frame_set_pdf == Do_set_pdf({1})
Frame_update_traj == Do_update_traj(NominalX, OptMus)
Call_simulate == Do_simulate(OptX0s, OptMus)
Call_cost == Do_cost(OptAlphas, OptMus)

NextFrame ==
  \/ Frame_set_pdf
  \/ Frame_update_traj
  \/ Call_project
  \/ Call_descentdirection
  \/ Call_simulate
  \/ Call_cost
  \/ Call_dcost

\* the part of the state a specification of the other part leaves alone
OptIdle ==
  /\ opt = NewErgodicOpt(Q(1), Q(0), Q(0))
  /\ ret = Called("new", FALSE, <<>>, <<>>)
  /\ reads = {}
  /\ lastTraj = NoTraj

QueueIdle ==
  /\ dataFiles = <<>>
  /\ nThreadArg = 1
  /\ mainpc = "idle"
  /\ nThread = 0
  /\ nTotalJobs = 0
  /\ max_queue_size = 0
  /\ jobs = 0
  /\ trial = 0
  /\ it = 0
  /\ remaining_jobs = 0
  /\ params = [t \in 1..MaxFiles |-> 0]
  /\ qbuffer = <<>>
  /\ qpipe = <<>>
  /\ waiting = 0
  /\ running = {}
  /\ exited = 0
  /\ done = {}
  /\ died = {}

(***************************************************************************)
(* Specifications.                                                         *)
(***************************************************************************)
Init == InitQueue /\ OptIdle

Next == NextQueue

Spec == Init /\ [][Next]_vars

InitO == InitOpt /\ QueueIdle

SpecOpt == InitO /\ [][NextOpt]_vars

InitN == InitNum /\ QueueIdle

SpecNum == InitN /\ [][NextNum]_vars

InitB == InitBvp /\ QueueIdle

SpecBvp == InitB /\ [][NextBvp]_vars

SpecFrame == InitO /\ [][NextFrame]_vars

(***************************************************************************)
(* Properties of the job-distribution layer (specification Spec).          *)
(***************************************************************************)
WellFormed == ~Malformed(dataFiles)
ProducerPastStart == mainpc \in {"trial", "params", "put", "join", "returned"}
JobsPending == remaining_jobs > 0 \/ QueueLen > 0
AllTimedOut == exited = jobs
NoLiveWorker == Live = 0

\* C1: with a well-formed configuration and no job raising, once every
\* worker has exited through its empty-queue timeout no job is left in the
\* work queue and no job is left that was never enqueued.
C1_NoJobLeftBehind ==
  (WellFormed /\ ProducerPastStart /\ AllTimedOut) => ~JobsPending

\* C2: when a job has raised and no worker has left through the timeout,
\* the jobs still in the queue or still to be enqueued have a remaining
\* worker that is alive to execute them.
C2_RemainingWorkersServe ==
  (ProducerPastStart /\ died # {} /\ exited = 0 /\ JobsPending) => Live > 0

\* C3: in every state the work queue holds at most min(2*nThread,
\* nTotalJobs) items, nThread being capped to nTotalJobs; while the queue is
\* full the producer stays at its put, with the same job and nothing added
\* to the queue, until a worker takes an item.
C3_QueueBounded ==
  /\ [](/\ QueueLen <= Min(2 * nThread, nTotalJobs)
        /\ nThread <= nTotalJobs)
  /\ [][(mainpc = "put" /\ QueueLen >= Min(2 * nThread, nTotalJobs))
          => /\ mainpc' = "put"
             /\ <<trial, it, remaining_jobs>>' = <<trial, it, remaining_jobs>>
             /\ Len(qbuffer') + Len(qpipe') <= QueueLen]_vars

\* C3 witness: the producer is blocked at its put on a full queue of at least
\* two items while a worker is running a job
C3_Witness ==
  /\ mainpc = "put"
  /\ QueueFull
  /\ QueueLen = Min(2 * nThread, nTotalJobs)
  /\ QueueLen >= 2
  /\ remaining_jobs > 0
  /\ running # {}

\* C4: SimulationMainQueue returns: the producer is never blocked at its put
\* on a full queue after every worker has terminated.
C4_ProducerNeverStuck ==
  ~(WellFormed /\ mainpc = "put" /\ QueueFull /\ NoLiveWorker)

\* C5: under a malformed configuration no worker process is ever started,
\* and no worker takes a job and fails on its configuration.
C5_FailsBeforeWorkers ==
  Malformed(dataFiles)
  => /\ jobs = 0
     /\ \A item \in died : ~MothFails(item)

(***************************************************************************)
(* Properties of the optimizer object (specification SpecOpt).             *)
(***************************************************************************)
Returned(ops) == ret.op \in ops /\ ~ret.raised

TensorsCurrent(self) ==
  /\ self.A_current.of = Cur(self)
  /\ self.B_current.of = Cur(self)
  /\ self.a_current.of = Cur(self)
  /\ self.b_current.of = Cur(self)
  /\ self.A_interp = self.A_current
  /\ self.B_interp = self.B_current
  /\ self.a_interp = self.a_current
  /\ self.b_interp = self.b_current
  /\ self.ck.X = self.X_current
  /\ self.ak.X = self.X_current
  /\ self.ak.ck = self.ck
  /\ self.a_current.erg = self.ak

\* C6: once update_traj(X, U) has returned, the four tensors and their four
\* interpolants were computed from that (X, U), ck and then ak were
\* recomputed from X and a_current holds that ak; project (Ksol),
\* descentdirection (Psol, Rsol) and dcost read only tensors computed from
\* the stored X_current, U_current.
C6_TensorsFromStoredTrajectory ==
  /\ Returned({"update_traj"})
       => (Cur(opt) = ret.args /\ TensorsCurrent(opt))
  /\ Returned({"project", "descentdirection", "dcost"})
       => (reads # {} /\ reads \subseteq {Cur(opt)})

\* C6 witness: the descent direction is computed after the nominal
\* trajectory was replaced (the cached gain K is of an earlier one)
C6_Witness ==
  /\ Returned({"descentdirection"})
  /\ Has(opt, {"K"})
  /\ opt.K.of # Cur(opt)
  /\ reads = {Cur(opt)}

\* C10: in every state X_current and U_current are the two arguments of the
\* last update_traj call, and a step that changes either of them is an
\* update_traj call that stores both of its arguments.
C10_JointReplacement ==
  /\ [](Cur(opt) = lastTraj)
  /\ [][Cur(opt)' # Cur(opt)
          => (ret'.op = "update_traj" /\ Cur(opt)' = ret'.args)]_vars

\* C10 witness: update_traj has returned with the same state array as the
\* call before it and another control array
C10_Witness ==
  /\ Returned({"update_traj"})
  /\ Has(opt, {"K"})
  /\ opt.K.of[1] = opt.X_current
  /\ opt.K.of[2] # opt.U_current
  /\ Cur(opt) = lastTraj

C8_QuinitTermInCost ==
  Returned({"eval_cost"}) =>
    \A d \in {Q(1), Q(-1)} :
      LET U == opt.U_current
          Ud == [U EXCEPT ![1] = RAdd(@, d)]
          w == RMul(Rat(1, 2), RSub(time[2], time[1]))
      IN  RSub(cost(opt, opt.X_current, Ud), ret.val) =
            RMul(w, RAdd(RMul(opt.b_current.val[1], d),
                         RMul(RMul(Rat(1, 2), opt.R), RMul(d, d))))

\* C9: barrier(X) is 0 when every sample lies in [0, wlimit], positive when
\* one lies outside, and is the trapezoidal integral of the squared
\* distance of each sample beyond the bound it violates.
C9_BarrierSquaredExcursion ==
  Returned({"barrier"}) =>
    LET xk == ret.args[1]
        inside == \A i \in Grid : RLe(Q(0), xk[i]) /\ RLe(xk[i], Q(wlimit))
        exc(x) == IF RLt(Q(wlimit), x) THEN RSub(x, Q(wlimit))
                  ELSE IF RLt(x, Q(0)) THEN RSub(Q(0), x) ELSE Q(0)
    IN  /\ inside => ret.val = Q(0)
        /\ ~inside => RLt(Q(0), ret.val)
        /\ ret.val = trapz([i \in Grid |-> RMul(exc(xk[i]), exc(xk[i]))])

\* C9 witness: a trajectory below 0 at one end and above wlimit at the other
C9_Witness ==
  /\ Returned({"barrier"})
  /\ RLt(ret.args[1][1], Q(0))
  /\ RLt(Q(wlimit), ret.args[1][tRes])
  /\ RLt(Q(0), ret.val)

(***************************************************************************)
(* Properties of the boundary-value solvers (specification SpecBvp).       *)
(***************************************************************************)
\* the two right-hand sides, given the values of the coefficients
Riccati(pp, A, B, Qn) ==
  RAdd(RSub(RAdd(RMul(pp, A), RMul(A, pp)), RMul(RMul(pp, B), RMul(B, pp))),
       Qn)
Adjoint(rr, A, B, a, b, P) ==
  RSub(RAdd(RMul(RSub(A, RMul(RMul(B, B), P)), rr), a), RMul(RMul(P, B), b))
Reversed(t) == RSub(time[tRes], t)

\* C11: every boundary-value solver applies the time reversal: peqns and
\* reqns evaluate their coefficient hooks at T - t, and Psol, Ksol and Rsol
\* return their samples with the terminal condition at the last grid index
\* (P1 for Psol, B times P1 for the gain of Ksol, 0 for Rsol).
C11_TimeReversalInEverySolver ==
  /\ Returned({"peqns"}) =>
       ret.val = Riccati(ret.args[2],
                         Interp(ret.args[3], Reversed(ret.args[1])),
                         Interp(ret.args[4], Reversed(ret.args[1])), Q(1))
  /\ Returned({"reqns"}) =>
       ret.val = Adjoint(ret.args[2],
                         Interp(ret.args[3], Reversed(ret.args[1])),
                         Interp(ret.args[4], Reversed(ret.args[1])),
                         Interp(ret.args[5], Reversed(ret.args[1])),
                         Interp(ret.args[6], Reversed(ret.args[1])),
                         Interp(ret.args[7], Reversed(ret.args[1])))
  /\ Returned({"Psol"}) => ret.val[tRes] = Q(P1)
  /\ Returned({"Ksol"}) => ret.val[tRes] = RMul(opt.B_current.val[tRes], Q(P1))
  /\ Returned({"Rsol"}) => ret.val[tRes] = Q(0)

(***************************************************************************)
(* Properties of the work items (specification Spec).                      *)
(***************************************************************************)
\* the items the workers have received so far (those of the finished jobs
\* were held in running before)
Received == running \cup died

\* C12: every work item a worker receives carries the parameter values of
\* the job it was put for: the values the producer had written into the
\* trial's ergParam and eidParam when it called put, never those of a later
\* job of the trial.
C12_ItemCarriesItsOwnValues ==
  \A item \in Received : item.content = <<item.slot[1], item.slot[2]>>

(***************************************************************************)
(* Frame properties of the optimizer's methods (specification SpecOpt).    *)
(***************************************************************************)
\* the attributes of the optimizer other than those in names are the same
\* in self and in other
SameExcept(self, other, names) ==
  \A f \in (DOMAIN self) \ names : other[f] = self[f]

\* C13: a call of set_pdf assigns pdf and uk and nothing else: X_current,
\* U_current, ck, ak, the four tensors and the four interpolants are as they
\* were, so the state gradient a_current keeps the uk it was computed from.
C13_SetPdfWritesPdfAndUk ==
  [][ret'.op = "set_pdf" =>
       /\ SameExcept(opt, opt', {"pdf", "uk", "attrs"})
       /\ opt'.attrs = opt.attrs \cup {"pdf", "uk"}
       /\ opt'.pdf = ret'.args[1]
       /\ opt'.uk = [pdf |-> ret'.args[1]]]_vars

\* C13 witness: set_pdf has returned with another density than the one the
\* state gradient and its interpolant were computed from
C13_Witness ==
  /\ Returned({"set_pdf"})
  /\ Has(opt, {"a_current", "a_interp"})
  /\ opt.a_current.erg.uk # opt.uk
  /\ opt.a_interp.erg.uk # opt.uk
  /\ opt.a_current.of = Cur(opt)

\* C14: only update_traj writes the nominal trajectory and its
\* linearization.  A project call that returns changes nothing but the
\* cached gain K, which is the gain of the tensors of the last update_traj
\* whatever the trajectory handed to project; descentdirection changes
\* nothing but P_current and R_current; simulate, cost and dcost, and every
\* call that raises, change nothing.
C14_OnlyUpdateTrajWritesTrajectory ==
  [][/\ (ret'.op = "project" /\ ~ret'.raised)
          => (/\ SameExcept(opt, opt', {"K", "attrs"})
              /\ opt'.attrs = opt.attrs \cup {"K"}
              /\ opt'.K = [val |-> KsolValue(opt), of |-> lastTraj])
     /\ (ret'.op = "descentdirection" /\ ~ret'.raised)
          => (/\ SameExcept(opt, opt', {"P_current", "R_current", "attrs"})
              /\ opt'.attrs = opt.attrs \cup {"P_current", "R_current"})
     /\ (\/ ret'.op \in {"simulate", "cost", "dcost"}
         \/ ret'.op \in {"project", "descentdirection"} /\ ret'.raised)
          => opt' = opt]_vars

\* C14 witness: project has returned for a reference trajectory other than
\* the nominal one, after descentdirection, with the gain and P_current
\* cached
C14_Witness ==
  /\ Returned({"project"})
  /\ ret.args[2] # Cur(opt)
  /\ Has(opt, {"K", "P_current", "R_current"})
  /\ opt.K.of = Cur(opt)
  /\ opt.P_current.of = Cur(opt)

=============================================================================
